---- MODULE Spec2Model ----
(***************************************************************************)
(* State-machine model of fsl_mrs.utils.results.FitRes: the parameter      *)
(* schema (fill_names), loadResults, combine, calculateConcScaling, the    *)
(* accessors (getConc, getPhaseParams, getShiftParams, getLineShapeParams, *)
(* getBaselineParams, getQCParams), predictedFID and to_file.              *)
(*                                                                         *)
(* Sequences are 1-based here; Python positions are 0-based.  A position   *)
(* p of the source is position p+1 of the model throughout.                *)
(***************************************************************************)
EXTENDS Integers, Sequences, FiniteSets, TLC

(***************************************************************************)
(* Bounds of the model.                                                    *)
(***************************************************************************)
MaxMetabs == 3
MaxGroupIndex == 2
MaxBaselineOrder == 1

(***************************************************************************)
(* Python's None, where a string is expected.                              *)
(***************************************************************************)
None == "None"

(***************************************************************************)
(* float64 values, kept exact: sign s, magnitude n/d in lowest terms.      *)
(* k = "fin" finite (n = 0 with s = -1 is the negative zero),              *)
(* k = "inf" an infinity of sign s, k = "nan" not-a-number.                *)
(***************************************************************************)
RECURSIVE Gcd(_, _)
Gcd(a, b) == IF b = 0 THEN a ELSE Gcd(b, a % b)

Abs(x) == IF x < 0 THEN 0 - x ELSE x

NaN == [k |-> "nan", s |-> 1, n |-> 0, d |-> 1]
\* Python's None, where a float is expected.
NoneF == [k |-> "none", s |-> 1, n |-> 0, d |-> 1]
Inf(sgn) == [k |-> "inf", s |-> sgn, n |-> 0, d |-> 1]
Fin(sgn, num, den) ==
    LET c == Gcd(num, den)
    IN  [k |-> "fin", s |-> sgn, n |-> num \div c, d |-> den \div c]
Zero(sgn) == [k |-> "fin", s |-> sgn, n |-> 0, d |-> 1]
FromInt(i) == Fin(IF i < 0 THEN -1 ELSE 1, Abs(i), 1)
NegZero == Zero(-1)

IsNaN(a) == a.k = "nan"
IsInf(a) == a.k = "inf"
IsFinite(a) == a.k = "fin"
IsZero(a) == a.k = "fin" /\ a.n = 0

\* IEEE addition, round-to-nearest: an exact zero sum is +0 unless both are -0.
FAdd(a, b) ==
    IF IsNaN(a) \/ IsNaN(b) THEN NaN
    ELSE IF IsInf(a) /\ IsInf(b) THEN (IF a.s = b.s THEN a ELSE NaN)
    ELSE IF IsInf(a) THEN a
    ELSE IF IsInf(b) THEN b
    ELSE LET x == a.s * a.n * b.d + b.s * b.n * a.d
         IN  IF x = 0
             THEN (IF IsZero(a) /\ IsZero(b) /\ a.s = -1 /\ b.s = -1
                   THEN Zero(-1) ELSE Zero(1))
             ELSE Fin(IF x < 0 THEN -1 ELSE 1, Abs(x), a.d * b.d)

FMul(a, b) ==
    IF IsNaN(a) \/ IsNaN(b) THEN NaN
    ELSE IF IsInf(a) \/ IsInf(b)
         THEN (IF IsZero(a) \/ IsZero(b) THEN NaN ELSE Inf(a.s * b.s))
    ELSE Fin(a.s * b.s, a.n * b.n, a.d * b.d)

\* IEEE division with numpy's errstate(divide='ignore', invalid='ignore'):
\* x/0 is an infinity, 0/0 is NaN, nothing is raised.
FDiv(a, b) ==
    IF IsNaN(a) \/ IsNaN(b) THEN NaN
    ELSE IF IsInf(a) THEN (IF IsInf(b) THEN NaN ELSE Inf(a.s * b.s))
    ELSE IF IsInf(b) THEN Zero(a.s * b.s)
    ELSE IF IsZero(b) THEN (IF IsZero(a) THEN NaN ELSE Inf(a.s * b.s))
    ELSE Fin(a.s * b.s, a.n * b.d, a.d * b.n)

\* Numeric equality (==): NaN equals nothing, the two zeros are equal.
FEq(a, b) ==
    /\ ~IsNaN(a)
    /\ ~IsNaN(b)
    /\ \/ a = b
       \/ IsZero(a) /\ IsZero(b)

\* Numeric a > b.
FGt(a, b) ==
    IF IsNaN(a) \/ IsNaN(b) THEN FALSE
    ELSE IF IsInf(a) THEN a.s = 1 /\ ~(IsInf(b) /\ b.s = 1)
    ELSE IF IsInf(b) THEN b.s = -1
    ELSE a.s * a.n * b.d > b.s * b.n * a.d

(***************************************************************************)
(* Percent standard deviation, sqrt(crlb) / param * 100.  The CRLB is an   *)
(* exact integer here; a finite non-zero quotient is kept exactly as       *)
(* k = "root": the value s * sqrt(n/d).                                    *)
(***************************************************************************)
LCModelCap == 999

Root(sgn, num, den) ==
    LET c == Gcd(num, den)
    IN  [k |-> "root", s |-> sgn, n |-> num \div c, d |-> den \div c]

SqrtOverParam(c, p) ==
    IF c < 0 \/ IsNaN(p) THEN NaN
    ELSE IF c = 0 THEN (IF IsZero(p) THEN NaN ELSE Zero(p.s))
    ELSE IF IsInf(p) THEN Zero(p.s)
    ELSE IF IsZero(p) THEN Inf(p.s)
    ELSE Root(p.s, c * 10000 * p.d * p.d, p.n * p.n)

\* perc_SD > 999
AboveCap(v) ==
    IF IsNaN(v) THEN FALSE
    ELSE IF IsInf(v) THEN v.s = 1
    ELSE IF v.k = "root" THEN v.s = 1 /\ v.n > LCModelCap * LCModelCap * v.d
    ELSE FGt(v, FromInt(LCModelCap))

\* perc_SD[perc_SD>999] = 999 ; perc_SD[isnan(perc_SD)] = 999
ClipSD(v) ==
    IF AboveCap(v) THEN FromInt(LCModelCap)
    ELSE IF IsNaN(v) THEN FromInt(LCModelCap)
    ELSE v

\* The masked vector; the two operands have the same length.
PercSD(crlbVec, paramVec) ==
    [i \in 1..Len(crlbVec) |-> ClipSD(SqrtOverParam(crlbVec[i], paramVec[i]))]

(***************************************************************************)
(* Names.                                                                  *)
(***************************************************************************)
InSeq(x, seq) == \E i \in 1..Len(seq) : seq[i] = x

\* list.index(x): the first position holding x.
IndexOf(x, seq) == CHOOSE i \in 1..Len(seq) : seq[i] = x /\ \A j \in 1..(i - 1) : seq[j] # x

\* '+'.join(seq)
RECURSIVE JoinPlus(_)
JoinPlus(seq) ==
    IF Len(seq) = 0 THEN ""
    ELSE IF Len(seq) = 1 THEN seq[1]
    ELSE seq[1] \o "+" \o JoinPlus(Tail(seq))

\* max(list) of a non-empty list of integers.
MaxOf(seq) == CHOOSE m \in {seq[i] : i \in 1..Len(seq)} : \A i \in 1..Len(seq) : seq[i] <= m

(***************************************************************************)
(* fill_names: the loops that append the nuisance-parameter names.         *)
(* range(n) is empty for n <= 0.                                           *)
(***************************************************************************)
RECURSIVE AppendIndexed(_, _, _, _)
\* for i in range(from, to): acc.append(f'{prefix}{i}')
AppendIndexed(acc, prefix, from, to) ==
    IF from >= to THEN acc
    ELSE AppendIndexed(Append(acc, prefix \o ToString(from)), prefix, from + 1, to)

RECURSIVE AppendBaseline(_, _, _)
\* for i in range(from, to): acc.append(f'B_real_{i}'); acc.append(f'B_imag_{i}')
AppendBaseline(acc, from, to) ==
    IF from >= to THEN acc
    ELSE AppendBaseline(
            Append(Append(acc, "B_real_" \o ToString(from)), "B_imag_" \o ToString(from)),
            from + 1, to)

\* The metab_groups argument: None, or a list of group indices.
NoGroups == [given |-> FALSE, list |-> <<>>]
Groups(list) == [given |-> TRUE, list |-> list]

\* The group count taken as the largest index, without the + 1.
GroupCountNoPlusOne(groups) == IF ~groups.given THEN 1 ELSE MaxOf(groups.list)

\* g, the stored group count.
GroupCount(groups) == IF ~groups.given THEN 1 ELSE MaxOf(groups.list) + 1

\* max() of an empty list raises ValueError before g is stored.
FillNamesRaises(groups) == groups.given /\ Len(groups.list) = 0

\* self.params_names as fill_names leaves it.
FillNames(names, order, groups) ==
    LET gc == GroupCount(groups)
        withGamma == AppendIndexed(names, "gamma_", 0, gc)
        withEps == AppendIndexed(withGamma, "eps_", 0, gc)
        withPhase == withEps \o <<"Phi0", "Phi1">>
    IN  AppendBaseline(withPhase, 0, order + 1)

(***************************************************************************)
(* The state of one FitRes object.                                         *)
(***************************************************************************)
VARIABLES
    phase,                \* "new", "constructed", "loaded", or "failed" (__init__ raised)
    metabs,               \* self.metabs
    original_metabs,      \* self.original_metabs
    numMetabs,            \* self.numMetabs
    params_names,         \* self.params_names
    g,                    \* self.g
    metab_groups,         \* self.metab_groups
    baseline_order,       \* self.baseline_order
    model,                \* self.model
    method,               \* self.method
    columns,              \* the ordered column labels of self.fitResults
    fitResults,           \* self.fitResults: column label -> sequence of row values
    params,               \* self.params
    cov,                  \* self.cov
    crlb,                 \* self.crlb
    perc_SD,              \* self.perc_SD
    mcmc_cov,             \* self.mcmc_cov (<<>> while the attribute does not exist)
    mcmc_cor,             \* self.mcmc_cor
    mcmc_var,             \* self.mcmc_var
    concScalings,         \* self.concScalings
    intrefstr,            \* self.intrefstr
    referenceMetab,       \* self.referenceMetab
    waterReferenceMetab,  \* self.waterReferenceMetab
    call,                 \* the last call made on the object, as its caller sees it
    processed,            \* the groups combine has appended so far, with the CRLB of each
    scalingCall,          \* the arguments of the call that stored the current concScalings
    lists,                \* the list objects several FitRes objects can hold: id -> contents
    objects,              \* two FitRes objects, by the list objects their attributes hold
    actor                 \* the object of the pair the last step was made on (0: none)

schemaVars == <<metabs, original_metabs, numMetabs, params_names, g, metab_groups,
                baseline_order, model, method>>
tableVars == <<columns, fitResults, params, cov, crlb, perc_SD, mcmc_cov, mcmc_cor, mcmc_var>>
scalingVars == <<concScalings, intrefstr, referenceMetab, waterReferenceMetab, scalingCall>>
sharedVars == <<lists, objects, actor>>
objectVars == <<phase, schemaVars, tableVars, scalingVars, call, processed>>
vars == <<objectVars, sharedVars>>

\* The value of a string attribute that was never assigned.
Unset == "unset"

NoScalings == [internal |-> NoneF, internalRef |-> None, molarity |-> NoneF, molality |-> NoneF]

NoScalingCall == [made |-> FALSE, reference |-> <<>>, anyWaterInput |-> FALSE,
                  allWaterInputs |-> FALSE, molality |-> NoneF, molarity |-> NoneF, afterWater |-> FALSE]


\* The list objects of the pair: the default of calculateConcScaling's
\* referenceMetab argument, made once when the method is defined (line 87);
\* a reference list and a group assignment a caller made and passes on.
InitialLists ==
    [id \in {"default", "explicit", "groups"} |->
        IF id = "default" THEN <<"Cr", "PCr">>
        ELSE IF id = "explicit" THEN <<"NAA">>
        ELSE <<0, 0>>]

ObjectIds == {1, 2}

\* An object of the pair that was not constructed yet.
NoObject == [made |-> FALSE, metab_groups |-> None, referenceMetab |-> Unset,
             intrefstr |-> Unset]

\* A call as its caller sees it: the method, the exception and the line that
\* raised it (0: none), and for getConc the arguments and the returned array.
\* For to_file: the view and the header of the file written; for predictedFID
\* the mode, the noBaseline argument and the models.getFittedModel call it
\* made; for the line-shape accessor the units.
NoFitted == [called |-> FALSE, basisSelect |-> "None", baselineOnly |-> FALSE,
             noBaseline |-> FALSE]

MkCall(op, err, at) ==
    [op |-> op, err |-> err, at |-> at, scaling |-> "", metab |-> "", function |-> "",
     shape |-> "", data |-> <<>>, what |-> "", header |-> <<>>, mode |-> "",
     noBaseline |-> FALSE, fitted |-> NoFitted, units |-> "", phi1 |-> "",
     complex |-> FALSE, normalise |-> FALSE, divisorSquared |-> NoneF]

Init ==
    /\ phase = "new"
    /\ metabs = <<>>
    /\ original_metabs = <<>>
    /\ numMetabs = 0
    /\ params_names = <<>>
    /\ g = 0
    /\ metab_groups = NoGroups
    /\ baseline_order = 0
    /\ model = Unset
    /\ method = Unset
    /\ columns = <<>>
    /\ fitResults = <<>>
    /\ params = <<>>
    /\ cov = <<>>
    /\ crlb = <<>>
    /\ perc_SD = <<>>
    /\ mcmc_cov = <<>>
    /\ mcmc_cor = <<>>
    /\ mcmc_var = <<>>
    /\ concScalings = NoScalings
    /\ intrefstr = Unset
    /\ referenceMetab = <<>>
    /\ waterReferenceMetab = Unset
    /\ call = MkCall("none", "none", 0)
    /\ processed = <<>>
    /\ scalingCall = NoScalingCall
    /\ lists = InitialLists
    /\ objects = [o \in ObjectIds |-> NoObject]
    /\ actor = 0

(***************************************************************************)
(* FitRes.__init__ with fill_names.                                        *)
(***************************************************************************)
Construct(names, groups, order, mdl, mth) ==
    /\ phase = "new"
    /\ metabs' = names
    /\ original_metabs' = names
    /\ numMetabs' = Len(names)
    /\ IF FillNamesRaises(groups)
       THEN /\ phase' = "failed"
            /\ params_names' = names
            /\ call' = MkCall("__init__", "ValueError", 196)
            /\ UNCHANGED <<g, metab_groups, baseline_order, model, method, concScalings>>
       ELSE /\ phase' = "constructed"
            /\ params_names' = FillNames(names, order, groups)
            /\ g' = GroupCount(groups)
            /\ metab_groups' = groups
            /\ baseline_order' = order
            /\ model' = mdl
            /\ method' = mth
            /\ concScalings' = NoScalings
            /\ call' = MkCall("__init__", "none", 0)
    /\ UNCHANGED <<tableVars, intrefstr, referenceMetab, waterReferenceMetab, scalingCall,
                   processed>>
    /\ UNCHANGED sharedVars

(***************************************************************************)
(* Inputs of the schema specification: every list of distinct basis names  *)
(* up to MaxMetabs, every group assignment of the same length (or None)    *)
(* over -MaxGroupIndex..MaxGroupIndex, every order up to MaxBaselineOrder. *)
(***************************************************************************)
BasisNames == {"Cr", "PCr", "NAA", "NAAG"}

SeqsUpTo(S, n) == UNION {[1..k -> S] : k \in 0..n}

NameLists(n) ==
    {s \in SeqsUpTo(BasisNames, n) : \A i, j \in 1..Len(s) : i # j => s[i] # s[j]}

GroupIndices == (0 - MaxGroupIndex)..MaxGroupIndex

GroupLists(len) == {Groups(l) : l \in [1..len -> GroupIndices]} \cup {NoGroups}

ConstructAny ==
    \E names \in NameLists(MaxMetabs), order \in 0..MaxBaselineOrder :
        \E groups \in GroupLists(Len(names)) :
            Construct(names, groups, order, "lorentzian", "Newton")

SchemaNext == ConstructAny

SpecSchema == Init /\ [][SchemaNext]_vars

(***************************************************************************)
(* The table: fitResults[label] is the column, a sequence of row values.   *)
(***************************************************************************)
NumRows(table, cols) == IF Len(cols) = 0 THEN 0 ELSE Len(table[cols[1]])

RECURSIVE SumFrom(_, _)
\* The sum of a non-empty sequence, taken from its first element on.
SumFrom(acc, seq) == IF Len(seq) = 0 THEN acc ELSE SumFrom(FAdd(acc, Head(seq)), Tail(seq))

\* Series.mean(): the sum divided by the count.
Mean(col) == FDiv(SumFrom(Head(col), Tail(col)), FromInt(Len(col)))

\* self.fitResults.mean().values: one mean per column, in column order.
ColumnMeans(table, cols) == [i \in 1..Len(cols) |-> Mean(table[cols[i]])]

\* pd.DataFrame(data=rows, columns=names)
MakeTable(rows, names) ==
    [c \in {names[i] : i \in 1..Len(names)} |->
        [r \in 1..Len(rows) |-> rows[r][IndexOf(c, names)]]]

\* np.diagonal(self.cov.T)
Diagonal(matrix) == [i \in 1..Len(matrix) |-> matrix[i][i]]

(***************************************************************************)
(* The sample statistics of the table (method 'MH'): DataFrame.cov(),      *)
(* .corr() and .var(), all with the n-1 denominator, so that one sample    *)
(* gives NaN throughout.                                                   *)
(***************************************************************************)
FNeg(a) == IF IsNaN(a) THEN a ELSE [a EXCEPT !.s = 0 - a.s]

Deviations(col) == LET m == Mean(col) IN [r \in 1..Len(col) |-> FAdd(col[r], FNeg(m))]

Covariance(x, y) ==
    LET dx == Deviations(x)
        dy == Deviations(y)
        products == [r \in 1..Len(x) |-> FMul(dx[r], dy[r])]
    IN  FDiv(SumFrom(Head(products), Tail(products)), FromInt(Len(x) - 1))

\* cov / sqrt(var_x * var_y), kept exactly as k = "root".
Correlation(x, y) ==
    LET c == Covariance(x, y)
        vx == Covariance(x, x)
        vy == Covariance(y, y)
    IN  IF ~IsFinite(c) \/ ~IsFinite(vx) \/ ~IsFinite(vy) \/ IsZero(vx) \/ IsZero(vy)
        THEN NaN
        ELSE IF IsZero(c) THEN c
        ELSE Root(c.s, c.n * c.n * vx.d * vy.d, c.d * c.d * vx.n * vy.n)

\* The statistics taken over the columns of the schema only.
SampleCovOverSchema(table, cols) ==
    [i \in 1..Len(params_names) |->
        [j \in 1..Len(params_names) |-> Covariance(table[cols[i]], table[cols[j]])]]

SampleCov(table, cols) ==
    [i \in 1..Len(cols) |-> [j \in 1..Len(cols) |-> Covariance(table[cols[i]], table[cols[j]])]]

SampleCorr(table, cols) ==
    [i \in 1..Len(cols) |-> [j \in 1..Len(cols) |-> Correlation(table[cols[i]], table[cols[j]])]]

SampleVar(table, cols) ==
    [i \in 1..Len(cols) |-> Covariance(table[cols[i]], table[cols[i]])]


(***************************************************************************)
(* getConc() as the scaling code calls it: the raw mean of every entry of  *)
(* self.metabs.                                                            *)
(***************************************************************************)
RawMeans(table, names) == [i \in 1..Len(names) |-> Mean(table[names[i]])]

RECURSIVE SumConc(_, _, _, _)
\* concSum += concentrations[names.index(m)] for m in reference, from 0.
SumConc(acc, reference, conc, names) ==
    IF Len(reference) = 0 THEN acc
    ELSE SumConc(FAdd(acc, conc[IndexOf(Head(reference), names)]), Tail(reference),
                 conc, names)

\* quant.quantifyInternal: 1 / sum of the raw concentrations of the reference.
QuantifyInternal(reference, conc, names) ==
    FDiv(FromInt(1), SumConc(Zero(1), reference, conc, names))

\* names.index(m) raises ValueError for a reference that is not in names.
QuantifyInternalRaises(reference, names) ==
    \E i \in 1..Len(reference) : ~InSeq(reference[i], names)

\* str.lower() on the mode strings the callers pass.
Lower(str) ==
    CASE str \in {"Full", "FULL", "full"} -> "full"
      [] str \in {"Baseline", "BASELINE", "baseline"} -> "baseline"
      [] OTHER -> str

\* predictedFID raises ValueError unless mode is full, baseline or in metabs.
PredictedFIDRaises(mode, names) ==
    /\ Lower(mode) # "full"
    /\ Lower(mode) # "baseline"
    /\ ~InSeq(mode, names)

\* The arguments of one calculateConcScaling call.  water, fractions and TE
\* say whether waterRefFID, tissueFractions and TE are given (not None);
\* waterRaises and molality/molarity are what quant.quantifyWater does.
ScalingArgs(reference, wrefMetab, water, fractions, te, waterRaises, molal, molar) ==
    [reference |-> reference, wrefMetab |-> wrefMetab, water |-> water,
     fractions |-> fractions, TE |-> te, waterRaises |-> waterRaises,
     molality |-> molal, molarity |-> molar]

\* The default reference taken to be creatine alone.
DefaultScalingArgsCrOnly ==
    ScalingArgs(<<"Cr">>, "Cr", FALSE, FALSE, FALSE, FALSE, NoneF, NoneF)

\* calculateConcScaling(mrs): every default.
DefaultScalingArgs ==
    ScalingArgs(<<"Cr", "PCr">>, "Cr", FALSE, FALSE, FALSE, FALSE, NoneF, NoneF)

\* The water branch taken as soon as a water reference is given.
WaterBranchOnFidAlone(a) == a.water

WaterBranch(a) == a.water /\ a.fractions /\ a.TE

\* Where calculateConcScaling raises: 94 quantifyInternal, 99 predictedFID,
\* 104 quantifyWater; 0 when it returns.
ScalingRaisesAt(a, names) ==
    IF QuantifyInternalRaises(a.reference, names) THEN 94
    ELSE IF WaterBranch(a) /\ PredictedFIDRaises(a.wrefMetab, names) THEN 99
    ELSE IF WaterBranch(a) /\ a.waterRaises THEN 104
    ELSE 0

\* The dictionary updated in place: without the water branch the old molarity
\* and molality stay.
NewScalingsMerged(a, table, names) ==
    LET internalRefScaling == QuantifyInternal(a.reference, RawMeans(table, names), names)
    IN  IF WaterBranch(a)
        THEN [internal |-> internalRefScaling, internalRef |-> JoinPlus(a.reference),
              molarity |-> a.molarity, molality |-> a.molality]
        ELSE [internal |-> internalRefScaling, internalRef |-> JoinPlus(a.reference),
              molarity |-> concScalings.molarity, molality |-> concScalings.molality]

\* The dictionary calculateConcScaling stores when it returns.
NewScalings(a, table, names) ==
    LET internalRefScaling == QuantifyInternal(a.reference, RawMeans(table, names), names)
    IN  IF WaterBranch(a)
        THEN [internal |-> internalRefScaling, internalRef |-> JoinPlus(a.reference),
              molarity |-> a.molarity, molality |-> a.molality]
        ELSE [internal |-> internalRefScaling, internalRef |-> JoinPlus(a.reference),
              molarity |-> NoneF, molality |-> NoneF]

\* What is remembered of the call that stored the current dictionary: its
\* reference, whether any and whether all of waterRefFID, tissueFractions and
\* TE were given, what quantifyWater returned to it if it was called, and whether the dictionary
\* it replaced (old) had a molarity.
ScalingCallOf(a, old) ==
    [made |-> TRUE, reference |-> a.reference,
     anyWaterInput |-> (a.water \/ a.fractions \/ a.TE),
     allWaterInputs |-> (a.water /\ a.fractions /\ a.TE),
     molality |-> IF WaterBranch(a) THEN a.molality ELSE NoneF,
     molarity |-> IF WaterBranch(a) THEN a.molarity ELSE NoneF,
     afterWater |-> old.molarity # NoneF]

(***************************************************************************)
(* loadResults(mrs, fitResults): rows is the sample array, one row per     *)
(* sample and one value per schema entry; lapCov is what calculate_lap_cov *)
(* returns for it.                                                         *)
(***************************************************************************)
LoadResults(rows, lapCov) ==
    /\ phase = "constructed"
    /\ phase' = "loaded"
    /\ columns' = params_names
    /\ fitResults' = MakeTable(rows, params_names)
    /\ params' = ColumnMeans(fitResults', columns')
    /\ cov' = lapCov
    /\ crlb' = Diagonal(lapCov)
    /\ perc_SD' = PercSD(crlb', params')
    /\ IF method = "MH"
       THEN /\ mcmc_cov' = SampleCov(fitResults', columns')
            /\ mcmc_cor' = SampleCorr(fitResults', columns')
            /\ mcmc_var' = SampleVar(fitResults', columns')
       ELSE UNCHANGED <<mcmc_cov, mcmc_cor, mcmc_var>>
    /\ IF InSeq("Cr", metabs) /\ InSeq("PCr", metabs)
       THEN /\ intrefstr' = JoinPlus(DefaultScalingArgs.reference)
            /\ referenceMetab' = DefaultScalingArgs.reference
            /\ waterReferenceMetab' = DefaultScalingArgs.wrefMetab
            /\ concScalings' = NewScalings(DefaultScalingArgs, fitResults', metabs)
            /\ scalingCall' = ScalingCallOf(DefaultScalingArgs, concScalings)
       ELSE UNCHANGED scalingVars
    /\ call' = MkCall("loadResults", "none", 0)
    /\ UNCHANGED <<schemaVars, processed>>
    /\ UNCHANGED sharedVars

(***************************************************************************)
(* combine(combineList).                                                   *)
(***************************************************************************)
\* The accumulator replaced by, not added to, each constituent's column.
AddColumnsOverwriting(ds, toComb, table) ==
    IF Len(toComb) = 0 THEN ds ELSE table[toComb[Len(toComb)]]

RECURSIVE AddColumns(_, _, _)
\* ds = ds.add(self.fitResults[metab]) for metab in toComb, row by row.
AddColumns(ds, toComb, table) ==
    IF Len(toComb) = 0 THEN ds
    ELSE AddColumns([r \in 1..Len(ds) |-> FAdd(ds[r], table[Head(toComb)][r])],
                    Tail(toComb), table)

\* The column of the group: zeros, then every constituent's column added.
GroupColumn(toComb, table, cols) ==
    AddColumns([r \in 1..NumRows(table, cols) |-> Zero(1)], toComb, table)

\* The positions jac is set to 1.0 at: self.metabs.index(metab) of each.
JacIndices(toComb, names) == {IndexOf(toComb[i], names) : i \in 1..Len(toComb)}

RECURSIVE SumOver(_, _, _)
\* The sum of matrix[i][j] over the pairs of a finite set of pairs.
SumOver(pairs, matrix, acc) ==
    IF pairs = {} THEN acc
    ELSE LET p == CHOOSE q \in pairs : TRUE
         IN  SumOver(pairs \ {p}, matrix, acc + matrix[p[1]][p[2]])

\* jac @ self.cov @ jac for the 0/1 vector jac that is 1 on ones.
QuadForm(ones, matrix) == SumOver(ones \X ones, matrix, 0)

\* self.fitResults[newstr] = ...: a new label is appended, an old one is kept.
WithColumn(cols, label) == IF InSeq(label, cols) THEN cols ELSE Append(cols, label)

SetColumn(table, label, column) ==
    [c \in (DOMAIN table) \cup {label} |-> IF c = label THEN column ELSE table[c]]

\* Where one pass of the loop body raises for the group: 128 for a constituent
\* that is not in self.metabs, 131 for a jac index outside the covariance
\* matrix, whichever constituent comes first; 0 when the group is appended.
GroupRaisesAt(toComb, names, matrix) ==
    LET bad == {i \in 1..Len(toComb) :
                    \/ ~InSeq(toComb[i], names)
                    \/ IndexOf(toComb[i], names) > Len(matrix)}
    IN  IF bad = {} THEN 0
        ELSE LET first == CHOOSE i \in bad : \A j \in bad : i <= j
             IN  IF ~InSeq(toComb[first], names) THEN 128 ELSE 131

\* One pass in which the group's column takes the place of its constituents,
\* whose columns are set to zero.
CombineOneConsuming(toComb, st, matrix) ==
    LET at == GroupRaisesAt(toComb, st.metabs, matrix)
        newstr == JoinPlus(toComb)
        newCRLB == QuadForm(JacIndices(toComb, st.metabs), matrix)
        column == GroupColumn(toComb, st.fitResults, st.columns)
    IN  IF at # 0 THEN [st EXCEPT !.at = at]
        ELSE [metabs |-> Append(st.metabs, newstr),
              columns |-> WithColumn(st.columns, newstr),
              fitResults |-> [c \in (DOMAIN st.fitResults) \cup {newstr} |->
                                 IF c = newstr THEN column
                                 ELSE IF InSeq(c, toComb)
                                 THEN [r \in 1..Len(column) |-> Zero(1)]
                                 ELSE st.fitResults[c]],
              crlb |-> Append(st.crlb, newCRLB),
              processed |-> Append(st.processed,
                                   [name |-> newstr, group |-> toComb, crlb |-> newCRLB]),
              at |-> 0]

\* One pass of the loop body on st = [metabs, columns, fitResults, crlb,
\* processed, at].
CombineOne(toComb, st, matrix) ==
    LET at == GroupRaisesAt(toComb, st.metabs, matrix)
        newstr == JoinPlus(toComb)
        ones == JacIndices(toComb, st.metabs)
        newCRLB == QuadForm(ones, matrix)
    IN  IF at # 0 THEN [st EXCEPT !.at = at]
        ELSE [metabs |-> Append(st.metabs, newstr),
              columns |-> WithColumn(st.columns, newstr),
              fitResults |-> SetColumn(st.fitResults, newstr,
                                       GroupColumn(toComb, st.fitResults, st.columns)),
              crlb |-> Append(st.crlb, newCRLB),
              processed |-> Append(st.processed,
                                   [name |-> newstr, group |-> toComb, crlb |-> newCRLB]),
              at |-> 0]

RECURSIVE CombineLoop(_, _, _)
\* for toComb in combineList: the loop stops at the first group that raises.
CombineLoop(combineList, st, matrix) ==
    IF Len(combineList) = 0 THEN st
    ELSE LET next == CombineOne(Head(combineList), st, matrix)
         IN  IF next.at # 0 THEN next
             ELSE CombineLoop(Tail(combineList), next, matrix)

\* sqrt(self.crlb) / params raises ValueError when the shapes differ (both
\* are longer than 1 here, so numpy cannot broadcast one of them).
CannotBroadcast(n, m) == n # m

\* The scaling set dropped because the table it was computed from changed.
ScalingsInvalidatedByCombine(dict) == NoScalings

\* self.concScalings after combine: no line of combine assigns to it.
ScalingsAfterCombine(dict) == dict

\* On an object without self.fitResults combine raises AttributeError at the
\* first use of it: line 124 in the loop, line 142 for an empty list.
Combine(combineList) ==
    /\ phase \in {"constructed", "loaded"}
    /\ IF phase = "constructed"
       THEN /\ call' = MkCall("combine", "AttributeError",
                              IF Len(combineList) = 0 THEN 142 ELSE 124)
            /\ numMetabs' = (IF Len(combineList) = 0 THEN Len(metabs) ELSE numMetabs)
            /\ UNCHANGED <<metabs, columns, fitResults, crlb, processed, perc_SD,
                           mcmc_cov, mcmc_cor, mcmc_var>>
       ELSE
         LET st == CombineLoop(combineList,
                               [metabs |-> metabs, columns |-> columns,
                                fitResults |-> fitResults, crlb |-> crlb,
                                processed |-> processed, at |-> 0],
                               cov)
         IN  /\ metabs' = st.metabs
             /\ columns' = st.columns
             /\ fitResults' = st.fitResults
             /\ crlb' = st.crlb
             /\ processed' = st.processed
             /\ IF st.at = 128
                THEN /\ call' = MkCall("combine", "ValueError", 128)
                     /\ UNCHANGED <<numMetabs, perc_SD, mcmc_cov, mcmc_cor, mcmc_var>>
                ELSE IF st.at = 131
                THEN /\ call' = MkCall("combine", "IndexError", 131)
                     /\ UNCHANGED <<numMetabs, perc_SD, mcmc_cov, mcmc_cor, mcmc_var>>
                ELSE /\ numMetabs' = Len(st.metabs)
                     /\ IF CannotBroadcast(Len(st.crlb), Len(st.columns))
                        THEN /\ call' = MkCall("combine", "ValueError", 143)
                             /\ UNCHANGED <<perc_SD, mcmc_cov, mcmc_cor, mcmc_var>>
                        ELSE /\ call' = MkCall("combine", "none", 0)
                             /\ perc_SD' = PercSD(st.crlb,
                                                  ColumnMeans(st.fitResults, st.columns))
                             /\ IF method = "MH"
                                THEN /\ mcmc_cov' = SampleCov(st.fitResults, st.columns)
                                     /\ mcmc_cor' = SampleCorr(st.fitResults, st.columns)
                                     /\ mcmc_var' = SampleVar(st.fitResults, st.columns)
                                ELSE UNCHANGED <<mcmc_cov, mcmc_cor, mcmc_var>>
    /\ concScalings' = ScalingsAfterCombine(concScalings)
    /\ UNCHANGED <<phase, original_metabs, params_names, g, metab_groups, baseline_order,
                   model, method, params, cov, intrefstr, referenceMetab,
                   waterReferenceMetab, scalingCall>>
    /\ UNCHANGED sharedVars

(***************************************************************************)
(* Inputs of the table specification.                                      *)
(***************************************************************************)
MaxRows == 2
MaxCombined == 2
MaxGroupsPerCall == 2

\* Sample rows over a schema of len entries: the entry's position as its
\* value; a row whose first two amplitudes are -0.0 and 0.0 and the rest -1;
\* a row that falls from 1 by one per entry.
RowInputs(len) ==
    { [i \in 1..len |-> FromInt(i)],
      [i \in 1..len |-> IF i = 1 THEN NegZero ELSE IF i = 2 THEN Zero(1) ELSE FromInt(-1)],
      [i \in 1..len |-> FromInt(2 - i)] }

TableInputs(len, maxRows) == UNION {[1..k -> RowInputs(len)] : k \in 1..maxRows}

\* Covariance matrices over a schema of len entries, both symmetric and
\* positive semi-definite: v v^T for v = (1, 2, ..) and for v = (0, 10, 20, ..).
CovInputs(len) ==
    { [i \in 1..len |-> [j \in 1..len |-> i * j]],
      [i \in 1..len |-> [j \in 1..len |-> 100 * (i - 1) * (j - 1)]] }

\* Groups to combine: basis pairs, a pair with a combined entry, a repeated
\* constituent, and a name ("Mac") that is in no basis used here.
GroupInputs ==
    { <<"Cr", "PCr">>, <<"NAA", "Cr">>, <<"Cr+PCr", "NAA">>, <<"Cr", "Cr">>,
      <<"Cr", "Mac">> }

CombineLists(maxGroups) == UNION {[1..k -> GroupInputs] : k \in 1..maxGroups}

ConstructForTable ==
    \E names \in {<<"Cr", "PCr", "NAA">>, <<"NAA", "Cr">>} :
        Construct(names, NoGroups, 0, "lorentzian", "Newton")

LoadAny ==
    \E rows \in TableInputs(Len(params_names), MaxRows),
       lapCov \in CovInputs(Len(params_names)) :
        LoadResults(rows, lapCov)

CombineAny ==
    \E combineList \in CombineLists(MaxGroupsPerCall) :
        /\ Len(processed) + Len(combineList) <= MaxCombined
        /\ Combine(combineList)

TableNext ==
    \/ ConstructForTable
    \/ LoadAny
    \/ CombineAny

SpecTable == Init /\ [][TableNext]_vars

(***************************************************************************)
(* calculateConcScaling(mrs, referenceMetab, waterRefFID, tissueFractions, *)
(* TE, ..., waterReferenceMetab, ...).                                     *)
(***************************************************************************)
\* The three attributes are assigned first (89-91).  On an object without
\* self.fitResults (its metabolite list not empty) the self.getConc() of line
\* 94 then raises AttributeError.
CalculateConcScaling(a) ==
    /\ phase = "loaded" \/ (phase = "constructed" /\ Len(metabs) > 0)
    /\ intrefstr' = JoinPlus(a.reference)
    /\ referenceMetab' = a.reference
    /\ waterReferenceMetab' = a.wrefMetab
    /\ IF phase = "constructed"
       THEN /\ call' = MkCall("calculateConcScaling", "AttributeError", 94)
            /\ UNCHANGED <<concScalings, scalingCall>>
       ELSE
         LET at == ScalingRaisesAt(a, metabs)
         IN  IF at # 0
             THEN /\ call' = MkCall("calculateConcScaling",
                                    IF at = 104 THEN "Exception" ELSE "ValueError", at)
                  /\ UNCHANGED <<concScalings, scalingCall>>
             ELSE /\ call' = MkCall("calculateConcScaling", "none", 0)
                  /\ concScalings' = NewScalings(a, fitResults, metabs)
                  /\ scalingCall' = ScalingCallOf(a, concScalings)
    /\ UNCHANGED <<phase, schemaVars, tableVars, processed>>
    /\ UNCHANGED sharedVars

(***************************************************************************)
(* getConc(scaling, metab, function).  The returned array is kept as a     *)
(* list of rows: one row per metabolite (one row for a named metabolite),  *)
(* each row the summary (one value) or the per-sample values.              *)
(***************************************************************************)
\* Series.sum()
Sum(col) == SumFrom(Head(col), Tail(col))

\* dfFunc(m): the column's values for function None, else Series.apply(function).
DfFunc(function, col) ==
    IF function = None THEN col
    ELSE IF function = "mean" THEN <<Mean(col)>>
    ELSE <<Sum(col)>>

RawConc(metab, function, table, names) ==
    IF metab # None THEN <<DfFunc(function, table[metab])>>
    ELSE [i \in 1..Len(names) |-> DfFunc(function, table[names[i]])]

\* The factors of the two water scalings taken from each other's entry.
ScalingFactorSwapped(scaling, dict) ==
    IF scaling = "internal" THEN dict.internal
    ELSE IF scaling = "molality" THEN dict.molarity
    ELSE dict.molality

\* The factor the branch of the scaling multiplies by.
ScalingFactor(scaling, dict) ==
    IF scaling = "internal" THEN dict.internal
    ELSE IF scaling = "molality" THEN dict.molality
    ELSE dict.molarity

\* The scaling branches entered before the metabolite is looked up.
GetConcRaisesAtScalingFirst(scaling, metab, names, dict) ==
    IF scaling = "internal" /\ dict.internal = NoneF THEN 270
    ELSE IF scaling = "molality" /\ dict.molality = NoneF THEN 275
    ELSE IF scaling = "molarity" /\ dict.molarity = NoneF THEN 280
    ELSE IF metab # None /\ ~InSeq(metab, names) THEN 258
    ELSE IF scaling \in {"raw", "internal", "molality", "molarity"} THEN 0
    ELSE 283

\* Where getConc raises ValueError; 0 when it returns.
GetConcRaisesAt(scaling, metab, names, dict) ==
    IF metab # None /\ ~InSeq(metab, names) THEN 258
    ELSE IF scaling = "raw" THEN 0
    ELSE IF scaling = "internal" THEN (IF dict.internal = NoneF THEN 270 ELSE 0)
    ELSE IF scaling = "molality" THEN (IF dict.molality = NoneF THEN 275 ELSE 0)
    ELSE IF scaling = "molarity" THEN (IF dict.molarity = NoneF THEN 280 ELSE 0)
    ELSE 283

\* rawConc * factor, element by element.
Scaled(data, factor) ==
    [i \in 1..Len(data) |-> [j \in 1..Len(data[i]) |-> FMul(data[i][j], factor)]]

\* The array getConc returns.
GetConcValue(scaling, metab, function, table, names, dict) ==
    IF scaling = "raw" THEN RawConc(metab, function, table, names)
    ELSE Scaled(RawConc(metab, function, table, names), ScalingFactor(scaling, dict))

ShapeOf(metab, function) ==
    IF metab # None THEN (IF function = None THEN "samples" ELSE "scalar")
    ELSE (IF function = None THEN "metabs x samples" ELSE "metabs")

\* Where getConc raises on an object without self.fitResults: ValueError for
\* an unknown metabolite (258), else AttributeError in dfFunc (251, 253) as
\* soon as one column is read; with an empty metabolite list no column is
\* read and the scaling branches are reached.
GetConcUnloadedAt(scaling, metab, function, names, dict) ==
    IF metab # None /\ ~InSeq(metab, names) THEN 258
    ELSE IF metab # None \/ Len(names) > 0 THEN (IF function = None THEN 251 ELSE 253)
    ELSE GetConcRaisesAt(scaling, metab, names, dict)

GetConc(scaling, metab, function) ==
    /\ phase \in {"constructed", "loaded"}
    /\ LET at == IF phase = "loaded"
                 THEN GetConcRaisesAt(scaling, metab, metabs, concScalings)
                 ELSE GetConcUnloadedAt(scaling, metab, function, metabs, concScalings)
       IN  call' = [MkCall("getConc",
                           IF at = 0 THEN "none"
                           ELSE IF at \in {251, 253} THEN "AttributeError"
                           ELSE "ValueError",
                           at)
                    EXCEPT !.scaling = scaling, !.metab = metab, !.function = function,
                           !.shape = IF at = 0 THEN ShapeOf(metab, function) ELSE "",
                           !.data = IF at = 0 /\ phase = "loaded"
                                    THEN GetConcValue(scaling, metab, function, fitResults,
                                                      metabs, concScalings)
                                    ELSE <<>>]
    /\ UNCHANGED <<phase, schemaVars, tableVars, scalingVars, processed>>
    /\ UNCHANGED sharedVars

(***************************************************************************)
(* Inputs of the life-cycle specification.                                 *)
(***************************************************************************)
\* What quant.quantifyWater returns: (molality, molarity).
WaterResults == {<<FromInt(2), FromInt(3)>>, <<Fin(1, 1, 2), FromInt(5)>>}

ReferenceInputs == {<<"Cr", "PCr">>, <<"NAA">>, <<"Mac">>}

ScalingInputs ==
    {ScalingArgs(ref, "Cr", w, f, t, raises, res[1], res[2]) :
        ref \in ReferenceInputs, w \in BOOLEAN, f \in BOOLEAN, t \in BOOLEAN,
        raises \in BOOLEAN, res \in WaterResults}

ConstructForLife ==
    \E names \in {<<"Cr", "PCr", "NAA">>, <<"NAA", "Cr">>} :
        Construct(names, NoGroups, 0, "lorentzian", "Newton")

\* One sample (the positions as values) or two (with the falling row).
LoadForLife ==
    \E rows \in {<<[i \in 1..Len(params_names) |-> FromInt(i)]>>,
                 <<[i \in 1..Len(params_names) |-> FromInt(i)],
                   [i \in 1..Len(params_names) |-> FromInt(2 - i)]>>},
       lapCov \in {[i \in 1..Len(params_names) |-> [j \in 1..Len(params_names) |-> i * j]]} :
        LoadResults(rows, lapCov)

CombineForLife ==
    \E combineList \in {<<<<"Cr", "PCr">>>>, <<<<"Cr", "Mac">>>>,
                        <<<<"NAA", "Cr">>, <<"Cr", "Mac">>>>} :
        /\ Len(processed) + Len(combineList) <= MaxCombined
        /\ Combine(combineList)

ScaleAny == \E a \in ScalingInputs : CalculateConcScaling(a)

Next ==
    \/ ConstructForLife
    \/ LoadForLife
    \/ CombineForLife
    \/ ScaleAny

Spec == Init /\ [][Next]_vars

(***************************************************************************)
(* The accessor specification: the life cycle with fewer scaling calls,    *)
(* and getConc with every scaling, metabolite choice and function.         *)
(***************************************************************************)
CombineForConc ==
    /\ Len(processed) < MaxCombined
    /\ Combine(<<<<"Cr", "PCr">>>>)

ScaleForConc ==
    \E ref \in {<<"Cr", "PCr">>, <<"NAA">>}, given \in BOOLEAN :
        CalculateConcScaling(
            ScalingArgs(ref, "Cr", given, given, given, FALSE, Fin(1, 1, 2), FromInt(5)))

GetConcAny ==
    \E scaling \in {"raw", "internal", "molality", "molarity", "mM"},
       metab \in {None, "Cr", "Cr+PCr", "Mac"},
       function \in {None, "mean", "sum"} :
        GetConc(scaling, metab, function)

ConcNext ==
    \/ ConstructForLife
    \/ LoadForLife
    \/ CombineForConc
    \/ ScaleForConc
    \/ GetConcAny

SpecConc == Init /\ [][ConcNext]_vars

(***************************************************************************)
(* to_file(filename, what).  The file is written by the to_csv of line 245 *)
(* when nothing before it raised; it is kept as its header and its columns.*)
(***************************************************************************)
\* The '/<label>' column always written, and the two water columns in the
\* other order.
ConcHeaderMolarityFirst(dict) ==
    <<"Metab", "Raw conc", "/" \o dict.internalRef>>
    \o (IF dict.molarity # NoneF THEN <<"mM">> ELSE <<>>)
    \o (IF dict.molality # NoneF THEN <<"mMol/kg">> ELSE <<>>)
    \o <<"%CRLB">>

\* The column labels of the 'concentrations' view, in insertion order.
ConcHeader(dict) ==
    <<"Metab", "Raw conc">>
    \o (IF dict.internal # NoneF THEN <<"/" \o dict.internalRef>> ELSE <<>>)
    \o (IF dict.molality # NoneF THEN <<"mMol/kg">> ELSE <<>>)
    \o (IF dict.molarity # NoneF THEN <<"mM">> ELSE <<>>)
    \o <<"%CRLB">>

\* seq[:n] for n >= 0
SliceTo(seq, n) == [i \in 1..(IF n < Len(seq) THEN n ELSE Len(seq)) |-> seq[i]]

\* self.getConc(scaling=...) as to_file calls it: one summary per metabolite.
ConcColumn(scaling, table, names, dict) ==
    LET rows == GetConcValue(scaling, None, "mean", table, names, dict)
    IN  [i \in 1..Len(rows) |-> rows[i][1]]

\* The columns of the 'concentrations' view, in the order of ConcHeader.
ConcColumns(table, names, dict, sd, n) ==
    <<names, ConcColumn("raw", table, names, dict)>>
    \o (IF dict.internal # NoneF THEN <<ConcColumn("internal", table, names, dict)>> ELSE <<>>)
    \o (IF dict.molality # NoneF THEN <<ConcColumn("molality", table, names, dict)>> ELSE <<>>)
    \o (IF dict.molarity # NoneF THEN <<ConcColumn("molarity", table, names, dict)>> ELSE <<>>)
    \o <<SliceTo(sd, n)>>

\* The 'Value' column of the 'parameters' view: self.fitResults.mean().
ParameterValues(table, cols) == ColumnMeans(table, cols)

\* Where to_file raises, 0 when it writes the file.  Without self.fitResults:
\* AttributeError in getConc (226), or at self.perc_SD (234) when the
\* metabolite list is empty, or at 243.  With it: ValueError when a column
\* is assigned whose length is not that of the frame's first column.
ToFileRaisesAt(what, loaded, names, n, sd, cols, pnames) ==
    IF what = "concentrations"
    THEN IF ~loaded THEN (IF Len(names) > 0 THEN 226 ELSE 234)
         ELSE IF Len(SliceTo(sd, n)) # Len(names) THEN 234
         ELSE 0
    ELSE IF what = "parameters"
    THEN IF ~loaded THEN 243
         ELSE IF Len(cols) # Len(pnames) THEN 243
         ELSE 0
    ELSE 0

ToFile(what) ==
    /\ phase \in {"constructed", "loaded"}
    /\ LET at == ToFileRaisesAt(what, phase = "loaded", metabs, numMetabs, perc_SD,
                                columns, params_names)
       IN  call' = [MkCall("to_file",
                           IF at = 0 THEN "none"
                           ELSE IF phase = "loaded" THEN "ValueError"
                           ELSE "AttributeError",
                           at)
                    EXCEPT !.what = what,
                           !.header = IF at # 0 THEN <<>>
                                      ELSE IF what = "concentrations"
                                      THEN ConcHeader(concScalings)
                                      ELSE IF what = "parameters" THEN <<"Name", "Value">>
                                      ELSE <<>>,
                           !.data = IF at # 0 THEN <<>>
                                    ELSE IF what = "concentrations"
                                    THEN ConcColumns(fitResults, metabs, concScalings,
                                                     perc_SD, numMetabs)
                                    ELSE IF what = "parameters"
                                    THEN <<params_names, ParameterValues(fitResults, columns)>>
                                    ELSE <<>>]
    /\ UNCHANGED <<phase, schemaVars, tableVars, scalingVars, processed>>
    /\ UNCHANGED sharedVars

(***************************************************************************)
(* predictedFID(mrs, mode, noBaseline).  models.getFittedModel is outside  *)
(* this file: the call made to it is kept with its arguments, and whether  *)
(* it raises is an input.                                                  *)
(***************************************************************************)
\* The branch taken with the mode compared as it is written.
PredictedFIDBranchCaseSensitive(mode, names) ==
    IF mode = "full" THEN 154
    ELSE IF mode = "baseline" THEN 156
    ELSE IF InSeq(mode, names) THEN 158
    ELSE 160

\* The line of the branch the mode selects; 160 is the raise.
PredictedFIDBranch(mode, names) ==
    IF Lower(mode) = "full" THEN 154
    ELSE IF Lower(mode) = "baseline" THEN 156
    ELSE IF InSeq(mode, names) THEN 158
    ELSE 160

\* The noBaseline argument not passed on to the forward model.
FittedCallWithBaseline(branch, mode, noBaseline) ==
    [called |-> TRUE,
     basisSelect |-> IF branch = 158 THEN mode ELSE None,
     baselineOnly |-> (branch = 156),
     noBaseline |-> FALSE]

\* The getFittedModel call of the branch: basisSelect, baselineOnly and
\* noBaseline as passed (156 passes no noBaseline, so its default False).
FittedCall(branch, mode, noBaseline) ==
    [called |-> TRUE,
     basisSelect |-> IF branch = 158 THEN mode ELSE None,
     baselineOnly |-> (branch = 156),
     noBaseline |-> IF branch = 156 THEN FALSE ELSE noBaseline]

\* Without self.params the argument list of the getFittedModel call raises
\* AttributeError before the call is made.
PredictedFID(mode, noBaseline, modelRaises) ==
    /\ phase \in {"constructed", "loaded"}
    /\ LET branch == PredictedFIDBranch(mode, metabs)
           made == branch # 160 /\ phase = "loaded"
       IN  call' = [MkCall("predictedFID",
                           IF branch = 160 THEN "ValueError"
                           ELSE IF phase # "loaded" THEN "AttributeError"
                           ELSE IF modelRaises THEN "Exception"
                           ELSE "none",
                           IF made /\ ~modelRaises THEN 0 ELSE branch)
                    EXCEPT !.mode = mode, !.noBaseline = noBaseline,
                           !.fitted = IF made THEN FittedCall(branch, mode, noBaseline)
                                      ELSE NoFitted]
    /\ UNCHANGED <<phase, schemaVars, tableVars, scalingVars, processed>>
    /\ UNCHANGED sharedVars

(***************************************************************************)
(* getLineShapeParams(units, function).  The returned array is kept as one *)
(* row per group holding the gamma values before the unit factor, and the  *)
(* units that select the factor (1/pi, or 1/(pi*hzperppm)).                *)
(***************************************************************************)
\* str.lower() on the unit strings the callers pass.
LowerUnits(str) ==
    CASE str \in {"Hz", "HZ", "hz"} -> "hz"
      [] str \in {"ppm", "PPM", "Ppm"} -> "ppm"
      [] OTHER -> str

\* Where getLineShapeParams raises; 0 when it returns (an array, or None for
\* a model kind that is neither 'lorentzian' nor 'voigt').
LineShapeRaisesAt(units, function, kind, loaded, gc) ==
    IF kind = "voigt" THEN 354
    ELSE IF kind # "lorentzian" THEN 0
    ELSE IF function = None /\ (~loaded \/ gc < 0) THEN 337
    ELSE IF function # None /\ gc > 0 /\ ~loaded THEN 343
    ELSE IF LowerUnits(units) = "hz" THEN 0
    ELSE IF LowerUnits(units) = "ppm" THEN (IF loaded THEN 0 ELSE 349)
    ELSE 351

LineShapeError(at, loaded) ==
    IF at = 0 THEN "none"
    ELSE IF at = 354 THEN "Exception"
    ELSE IF at = 351 THEN "ValueError"
    ELSE IF loaded THEN "ValueError"
    ELSE "AttributeError"

\* gamma before the unit factor: dfFunc of each gamma_i column.
GammaRows(function, table, gc) ==
    [i \in 1..(IF gc > 0 THEN gc ELSE 0) |->
        DfFunc(function, table["gamma_" \o ToString(i - 1)])]

GetLineShapeParams(units, function) ==
    /\ phase \in {"constructed", "loaded"}
    /\ LET at == LineShapeRaisesAt(units, function, model, phase = "loaded", g)
       IN  call' = [MkCall("getLineShapeParams", LineShapeError(at, phase = "loaded"), at)
                    EXCEPT !.units = units, !.function = function,
                           !.shape = IF at # 0 THEN ""
                                     ELSE IF model # "lorentzian" THEN "None"
                                     ELSE IF function = None THEN "samples x groups"
                                     ELSE "groups",
                           !.data = IF at = 0 /\ model = "lorentzian" /\ phase = "loaded"
                                    THEN GammaRows(function, fitResults, g)
                                    ELSE <<>>]
    /\ UNCHANGED <<phase, schemaVars, tableVars, scalingVars, processed>>
    /\ UNCHANGED sharedVars

(***************************************************************************)
(* The export specification: the life cycle over three model kinds, with   *)
(* the accessors and to_file called before and after loadResults.          *)
(* loadResults is given the two kinds the forward model is called with     *)
(* here; an object of another kind stays as __init__ left it.              *)
(***************************************************************************)
ModelKinds == {"lorentzian", "voigt", "free_shift"}

ConstructForExport ==
    \E names \in {<<"Cr", "PCr", "NAA">>, <<"NAA", "Cr">>}, kind \in ModelKinds :
        Construct(names, NoGroups, 0, kind, "Newton")

LoadForExport ==
    /\ model \in {"lorentzian", "voigt"}
    /\ LoadForLife

CombineForExport ==
    \E combineList \in {<<<<"Cr", "PCr">>>>, <<<<"NAA", "Cr">>, <<"Cr", "Mac">>>>} :
        /\ Len(processed) + Len(combineList) <= MaxCombined
        /\ Combine(combineList)

ToFileAny == \E what \in {"concentrations", "qc", "parameters"} : ToFile(what)

PredictedFIDAny ==
    \E mode \in {"Full", "full", "Baseline", "Cr", "Cr+PCr", "Mac", "fully"},
       noBaseline \in BOOLEAN, modelRaises \in BOOLEAN :
        PredictedFID(mode, noBaseline, modelRaises)

GetLineShapeAny ==
    \E units \in {"Hz", "PPM", "kHz"}, function \in {None, "mean"} :
        GetLineShapeParams(units, function)

GetConcForExport ==
    \E scaling \in {"raw", "molarity"}, metab \in {None, "Mac"} :
        GetConc(scaling, metab, "mean")

ExportNext ==
    \/ ConstructForExport
    \/ LoadForExport
    \/ CombineForExport
    \/ ScaleForConc
    \/ ToFileAny
    \/ PredictedFIDAny
    \/ GetLineShapeAny
    \/ GetConcForExport

SpecExport == Init /\ [][ExportNext]_vars

(***************************************************************************)
(* getPhaseParams(phi0, phi1, function).  With function None p0 and p1 are *)
(* the columns' own buffers (Series.values of the all-float table), and    *)
(* the *= of lines 295-306 multiplies them where they are: the table.      *)
(* With copy-on-write pandas the buffers are read-only and the same *=     *)
(* raises ValueError; writable says which of the two the build does.       *)
(* np.pi is kept as the rational 22/7, and mrs.centralFrequency as         *)
(* 123 MHz, so that every factor stays exact.                              *)
(***************************************************************************)
Pi == Fin(1, 22, 7)

\* self.hzperppm = mrs.centralFrequency/1E6
HzPerPpm == FromInt(123)

\* str.lower() on the phase unit strings the callers pass.
LowerPhaseUnits(str) ==
    CASE str \in {"degrees", "Degrees", "DEGREES"} -> "degrees"
      [] str \in {"radians", "Radians"} -> "radians"
      [] str \in {"seconds", "Seconds"} -> "seconds"
      [] str \in {"deg_per_ppm", "DEG_PER_PPM"} -> "deg_per_ppm"
      [] str \in {"deg_per_hz", "deg_per_Hz"} -> "deg_per_hz"
      [] OTHER -> str

\* The factor of line 295.
Phi0Factor == FDiv(Pi, FromInt(180))

\* The factors of lines 302, 304 and 306.
Phi1Factor(u1) ==
    IF u1 = "seconds" THEN FDiv(FromInt(1), FMul(FromInt(2), Pi))
    ELSE IF u1 = "deg_per_ppm" THEN FMul(FDiv(FromInt(180), Pi), HzPerPpm)
    ELSE FMul(FDiv(FromInt(180), Pi), FromInt(1))

TimesFactor(values, factor) == [r \in 1..Len(values) |-> FMul(values[r], factor)]

\* p0 after lines 294-299, p1 after lines 301-308.
ScalePhi0(values, u0) == IF u0 = "degrees" THEN TimesFactor(values, Phi0Factor) ELSE values

ScalePhi1(values, u1) == TimesFactor(values, Phi1Factor(u1))

\* Where getPhaseParams raises; 0 when it returns.
PhaseRaisesAt(u0, u1, function, loaded, writable) ==
    LET inPlace == function = None
    IN  IF ~loaded THEN (IF inPlace THEN 288 ELSE 291)
        ELSE IF u0 \notin {"degrees", "radians"} THEN 299
        ELSE IF u0 = "degrees" /\ inPlace /\ ~writable THEN 295
        ELSE IF u1 = "seconds" THEN (IF inPlace /\ ~writable THEN 302 ELSE 0)
        ELSE IF u1 = "deg_per_ppm" THEN (IF inPlace /\ ~writable THEN 304 ELSE 0)
        ELSE IF u1 = "deg_per_hz" THEN (IF inPlace /\ ~writable THEN 306 ELSE 0)
        ELSE 308

\* The table after the call: line 295 has run on the Phi0 column when the
\* call got past it, lines 302-306 on the Phi1 column when the call returned.
PhaseTable(table, u0, u1, function, writable, at) ==
    IF function # None \/ ~writable THEN table
    ELSE [c \in DOMAIN table |->
            IF c = "Phi0" /\ u0 = "degrees" /\ at \in {0, 308}
            THEN ScalePhi0(table[c], u0)
            ELSE IF c = "Phi1" /\ at = 0 THEN ScalePhi1(table[c], u1)
            ELSE table[c]]

GetPhaseParams(phi0, phi1, function, writable) ==
    /\ phase \in {"constructed", "loaded"}
    /\ LET u0 == LowerPhaseUnits(phi0)
           u1 == LowerPhaseUnits(phi1)
           at == PhaseRaisesAt(u0, u1, function, phase = "loaded", writable)
       IN  /\ call' = [MkCall("getPhaseParams",
                              IF at = 0 THEN "none"
                              ELSE IF phase = "loaded" THEN "ValueError"
                              ELSE "AttributeError",
                              at)
                       EXCEPT !.units = phi0, !.phi1 = phi1, !.function = function,
                              !.shape = IF at # 0 THEN ""
                                        ELSE IF function = None THEN "samples"
                                        ELSE "scalar",
                              !.data = IF at # 0 THEN <<>>
                                       ELSE <<ScalePhi0(DfFunc(function, fitResults["Phi0"]), u0),
                                              ScalePhi1(DfFunc(function, fitResults["Phi1"]), u1)>>]
           /\ fitResults' = IF phase = "loaded"
                            THEN PhaseTable(fitResults, u0, u1, function, writable, at)
                            ELSE fitResults
    /\ UNCHANGED <<phase, schemaVars, columns, params, cov, crlb, perc_SD, mcmc_cov,
                   mcmc_cor, mcmc_var, scalingVars, processed>>
    /\ UNCHANGED sharedVars

(***************************************************************************)
(* getShiftParams(units, function).  As for the line shape, the returned   *)
(* array is kept as one row per group holding the eps values before the    *)
(* unit factor, with the units that select it.                             *)
(***************************************************************************)
ShiftRaisesAt(units, function, loaded, gc) ==
    IF function = None /\ (~loaded \/ gc < 0) THEN 315
    ELSE IF function # None /\ gc > 0 /\ ~loaded THEN 321
    ELSE IF LowerUnits(units) = "ppm" THEN (IF loaded THEN 0 ELSE 325)
    ELSE IF LowerUnits(units) = "hz" THEN 0
    ELSE 329

ShiftError(at, loaded) ==
    IF at = 0 THEN "none"
    ELSE IF at = 329 THEN "ValueError"
    ELSE IF loaded THEN "ValueError"
    ELSE "AttributeError"

EpsRows(function, table, gc) ==
    [i \in 1..(IF gc > 0 THEN gc ELSE 0) |->
        DfFunc(function, table["eps_" \o ToString(i - 1)])]

GetShiftParams(units, function) ==
    /\ phase \in {"constructed", "loaded"}
    /\ LET at == ShiftRaisesAt(units, function, phase = "loaded", g)
       IN  call' = [MkCall("getShiftParams", ShiftError(at, phase = "loaded"), at)
                    EXCEPT !.units = units, !.function = function,
                           !.shape = IF at # 0 THEN ""
                                     ELSE IF function = None THEN "samples x groups"
                                     ELSE "groups",
                           !.data = IF at = 0 /\ phase = "loaded"
                                    THEN EpsRows(function, fitResults, g)
                                    ELSE <<>>]
    /\ UNCHANGED <<phase, schemaVars, tableVars, scalingVars, processed>>
    /\ UNCHANGED sharedVars

(***************************************************************************)
(* getBaselineParams(complex, normalise).  The array is kept as its rows   *)
(* before the division of line 372: a row <<re, im>> is one complex        *)
(* number, a row <<x>> one real number.  The divisor np.abs(bParams[0]) is *)
(* kept as its square, so that no root has to be taken.                    *)
(***************************************************************************)
\* breal and bimag of lines 362-363 for every order b.
BaselineMeans(table, order) ==
    [b \in 1..(order + 1) |-> <<Mean(table["B_real_" \o ToString(b - 1)]),
                                 Mean(table["B_imag_" \o ToString(b - 1)])>>]

\* bParams of line 369: append(breal+1j*bimag), or extend([breal, bimag]).
BaselineArray(means, complex) ==
    IF complex THEN means
    ELSE [i \in 1..(2 * Len(means)) |-> <<means[(i + 1) \div 2][IF i % 2 = 1 THEN 1 ELSE 2]>>]

\* np.abs(x) squared, of a complex or of a real entry.
AbsSquared(entry) ==
    IF Len(entry) = 2
    THEN FAdd(FMul(entry[1], entry[1]), FMul(entry[2], entry[2]))
    ELSE FMul(entry[1], entry[1])

GetBaselineParams(complex, normalise) ==
    /\ phase \in {"constructed", "loaded"}
    /\ IF phase = "constructed"
       THEN call' = [MkCall("getBaselineParams", "AttributeError", 362)
                     EXCEPT !.complex = complex, !.normalise = normalise]
       ELSE LET bParams == BaselineArray(BaselineMeans(fitResults, baseline_order), complex)
            IN  call' = [MkCall("getBaselineParams", "none", 0)
                         EXCEPT !.complex = complex, !.normalise = normalise,
                                !.shape = IF complex THEN "complex" ELSE "real",
                                !.data = bParams,
                                !.divisorSquared = IF normalise THEN AbsSquared(bParams[1])
                                                   ELSE NoneF]
    /\ UNCHANGED <<phase, schemaVars, tableVars, scalingVars, processed>>
    /\ UNCHANGED sharedVars

(***************************************************************************)
(* getQCParams(): the means of what qc.calcQC stored at loadResults.       *)
(***************************************************************************)
GetQCParams ==
    /\ phase \in {"constructed", "loaded"}
    /\ call' = IF phase = "loaded"
               THEN [MkCall("getQCParams", "none", 0) EXCEPT !.shape = "SNR, FWHM"]
               ELSE MkCall("getQCParams", "AttributeError", 378)
    /\ UNCHANGED <<phase, schemaVars, tableVars, scalingVars, processed>>
    /\ UNCHANGED sharedVars

(***************************************************************************)
(* The read-only specification: an object is constructed and loaded, and   *)
(* then only read, by every accessor and by to_file.  The in-place         *)
(* products of getPhaseParams grow without limit; the call is made while   *)
(* every phase value of the table is within the two bounds.                *)
(***************************************************************************)
MaxPhaseNumerator == 1000
MaxPhaseDenominator == 50

Growable(table) ==
    \A c \in {"Phi0", "Phi1"} : \A r \in 1..Len(table[c]) :
        table[c][r].n <= MaxPhaseNumerator /\ table[c][r].d <= MaxPhaseDenominator

ConstructForAccess ==
    \E order \in 0..MaxBaselineOrder :
        Construct(<<"Cr", "PCr", "NAA">>, NoGroups, order, "lorentzian", "Newton")

GetPhaseAny ==
    \E phi0 \in {"degrees", "Radians", "grad"},
       phi1 \in {"seconds", "deg_per_ppm", "deg_per_Hz", "hz"},
       function \in {None, "mean"}, writable \in BOOLEAN :
        /\ phase = "loaded" => Growable(fitResults)
        /\ GetPhaseParams(phi0, phi1, function, writable)

GetShiftAny ==
    \E units \in {"ppm", "Hz", "kHz"}, function \in {None, "mean"} :
        GetShiftParams(units, function)

GetBaselineAny ==
    \E complex \in BOOLEAN, normalise \in BOOLEAN : GetBaselineParams(complex, normalise)

GetConcForAccess ==
    \E scaling \in {"raw", "internal"}, function \in {None, "mean"} :
        GetConc(scaling, None, function)

AccessNext ==
    \/ ConstructForAccess
    \/ LoadForLife
    \/ GetPhaseAny
    \/ GetShiftAny
    \/ GetLineShapeAny
    \/ GetBaselineAny
    \/ GetQCParams
    \/ GetConcForAccess
    \/ ToFileAny

SpecAccess == Init /\ [][AccessNext]_vars

(***************************************************************************)
(* Two FitRes objects and the list objects they hold.  fill_names copies   *)
(* names (deepcopy, lines 186-187) but stores metab_groups as it was       *)
(* passed (line 199); calculateConcScaling stores the referenceMetab list  *)
(* it was called with (line 90), which for a call without the argument is  *)
(* the one default list of the method.  An attribute is kept as the id of  *)
(* the list object it holds.                                               *)
(***************************************************************************)
MaxReferenceLen == 3

\* FitRes(model, method, names, metab_groups, ...) for object o.
NewFitRes(o, groupsRef) ==
    /\ ~objects[o].made
    /\ objects' = [objects EXCEPT ![o] = [NoObject EXCEPT !.made = TRUE,
                                                        !.metab_groups = groupsRef]]
    /\ actor' = o
    /\ UNCHANGED lists
    /\ UNCHANGED objectVars

\* Lines 89-90 of calculateConcScaling on object o, called with the list ref
\* ("default": called without the argument).
StoreReference(o, ref) ==
    /\ objects[o].made
    /\ objects' = [objects EXCEPT ![o].intrefstr = JoinPlus(lists[ref]),
                                  ![o].referenceMetab = ref]
    /\ actor' = o
    /\ UNCHANGED lists
    /\ UNCHANGED objectVars

\* The holder of object o changes the list o.referenceMetab in place.
AppendToReference(o, name) ==
    /\ objects[o].made
    /\ objects[o].referenceMetab # Unset
    /\ Len(lists[objects[o].referenceMetab]) < MaxReferenceLen
    /\ lists' = [lists EXCEPT ![objects[o].referenceMetab] = Append(@, name)]
    /\ actor' = o
    /\ UNCHANGED objects
    /\ UNCHANGED objectVars

\* The holder of object o changes the list o.metab_groups in place.
SetGroupOf(o, k) ==
    /\ objects[o].made
    /\ objects[o].metab_groups # None
    /\ lists[objects[o].metab_groups][1] # k
    /\ lists' = [lists EXCEPT ![objects[o].metab_groups][1] = k]
    /\ actor' = o
    /\ UNCHANGED objects
    /\ UNCHANGED objectVars

NewFitResAny == \E o \in ObjectIds, groupsRef \in {None, "groups"} : NewFitRes(o, groupsRef)

StoreReferenceAny == \E o \in ObjectIds, ref \in {"default", "explicit"} : StoreReference(o, ref)

AppendToReferenceAny == \E o \in ObjectIds, name \in {"NAA", "Mac"} : AppendToReference(o, name)

SetGroupAny == \E o \in ObjectIds, k \in 0..MaxGroupIndex : SetGroupOf(o, k)

SharedNext ==
    \/ NewFitResAny
    \/ StoreReferenceAny
    \/ AppendToReferenceAny
    \/ SetGroupAny

SpecShared == Init /\ [][SharedNext]_vars

(***************************************************************************)
(* The sampling specification: the fitting method 'MH' next to 'Newton',   *)
(* one or two samples, and every combine call of the table specification.  *)
(***************************************************************************)
ConstructForSample ==
    \E names \in {<<"Cr", "PCr", "NAA">>, <<"NAA", "Cr">>}, mth \in {"Newton", "MH"} :
        Construct(names, NoGroups, 0, "lorentzian", mth)

SampleNext ==
    \/ ConstructForSample
    \/ LoadForLife
    \/ CombineAny

SpecSample == Init /\ [][SampleNext]_vars

(***************************************************************************)
(* Claims about the parameter schema, checked under SpecSchema.            *)
(***************************************************************************)

\* C1: for every names / group assignment / baseline order, the schema built
\* by fill_names has length numMetabs + 2*g + 2 + 2*(baseline_order+1), g the
\* stored group count.
C1_SchemaLength ==
    phase = "constructed" =>
        Len(params_names) = numMetabs + 2 * g + 2 + 2 * (baseline_order + 1)

\* The order the schema is claimed to have, written without the loops.
ExpectedSchema(names, gc, order) ==
    LET n == IF gc > 0 THEN gc ELSE 0
    IN  names
        \o [i \in 1..n |-> "gamma_" \o ToString(i - 1)]
        \o [i \in 1..n |-> "eps_" \o ToString(i - 1)]
        \o <<"Phi0", "Phi1">>
        \o [i \in 1..(2 * (order + 1)) |->
                IF i % 2 = 1 THEN "B_real_" \o ToString((i - 1) \div 2)
                             ELSE "B_imag_" \o ToString((i - 1) \div 2)]

\* C2: the schema is the metabolite names, gamma_0..gamma_{g-1},
\* eps_0..eps_{g-1}, Phi0, Phi1, then B_real_i, B_imag_i for i = 0..order,
\* with g = max(assignment)+1, or 1 without an assignment; for
\* ['Cr','PCr','NAA'], one group and order 0 it is the nine names of the
\* scenario.
C2_SchemaOrder ==
    phase = "constructed" =>
        /\ g = (IF metab_groups.given THEN MaxOf(metab_groups.list) + 1 ELSE 1)
        /\ params_names = ExpectedSchema(metabs, g, baseline_order)
        /\ (metabs = <<"Cr", "PCr", "NAA">> /\ g = 1 /\ baseline_order = 0) =>
               params_names = <<"Cr", "PCr", "NAA", "gamma_0", "eps_0", "Phi0", "Phi1",
                                "B_real_0", "B_imag_0">>

\* A schema with two groups and a first-order baseline has been built.
C2_Witness ==
    /\ phase = "constructed"
    /\ metabs = <<"Cr", "PCr", "NAA">>
    /\ metab_groups = Groups(<<0, 1, 0>>)
    /\ baseline_order = 1
    /\ params_names = <<"Cr", "PCr", "NAA", "gamma_0", "gamma_1", "eps_0", "eps_1",
                        "Phi0", "Phi1", "B_real_0", "B_imag_0", "B_real_1", "B_imag_1">>

\* C3: no result object is constructed from a group assignment holding a
\* negative index or an index >= the group count.
C3_GroupIndicesValidated ==
    (phase = "constructed" /\ metab_groups.given) =>
        \A i \in 1..Len(metab_groups.list) :
            metab_groups.list[i] >= 0 /\ metab_groups.list[i] < g

(***************************************************************************)
(* Claims about loadResults and combine, checked under SpecTable.          *)
(***************************************************************************)

\* The value the percent-SD sentinel rule gives for a computed value v.
SentinelRule(v) ==
    IF IsNaN(v) \/ IsInf(v) THEN FromInt(LCModelCap)
    ELSE IF AboveCap(v) THEN FromInt(LCModelCap)
    ELSE v

\* C4: after loadResults and after every combine each stored percent-SD is
\* min(v, 999) for a finite v = sqrt(CRLB)/estimate*100 and exactly 999 for a
\* v that is NaN or an infinity of either sign.
C4_PercentSDSentinel ==
    (phase = "loaded" /\ call.op \in {"loadResults", "combine"} /\ call.err = "none") =>
        \A i \in 1..Len(perc_SD) :
            perc_SD[i] = SentinelRule(SqrtOverParam(crlb[i], Mean(fitResults[columns[i]])))

\* C5: every group combine has processed has a column named by its names
\* joined with '+', and in every row that column is the sum of the
\* constituents' values in the row.
C5_CombinedColumnIsSum ==
    \A k \in 1..Len(processed) :
        LET grp == processed[k].group
        IN  /\ InSeq(JoinPlus(grp), columns)
            /\ processed[k].name = JoinPlus(grp)
            /\ \A r \in 1..NumRows(fitResults, columns) :
                   FEq(fitResults[JoinPlus(grp)][r],
                       SumFrom(fitResults[grp[1]][r],
                               [i \in 1..(Len(grp) - 1) |-> fitResults[grp[i + 1]][r]]))

\* A two-sample table holds a column combined from a combined entry.
C5_Witness ==
    /\ phase = "loaded"
    /\ NumRows(fitResults, columns) = 2
    /\ \E k \in 1..Len(processed) : processed[k].group = <<"Cr+PCr", "NAA">>
    /\ \E r \in 1..2 : ~FEq(fitResults["Cr+PCr+NAA"][r], fitResults["Cr+PCr"][r])

RECURSIVE SupportOf(_)
\* The covariance indices a metabolite-list entry stands for: its own schema
\* position for a basis name, those of its constituents for a combined entry.
SupportOf(name) ==
    IF InSeq(name, original_metabs) THEN {IndexOf(name, params_names)}
    ELSE LET k == CHOOSE j \in 1..Len(processed) : processed[j].name = name
         IN  UNION {SupportOf(processed[k].group[i]) : i \in 1..Len(processed[k].group)}

\* C6: the CRLB appended for a processed group is j cov j^T for the indicator
\* j of the covariance indices of the group's constituents, the variance of
\* their sum, also when a constituent was created by an earlier combine.
C6_CombinedCRLBIsVarianceOfSum ==
    \A k \in 1..Len(processed) :
        LET grp == processed[k].group
        IN  processed[k].crlb =
                QuadForm(UNION {SupportOf(grp[i]) : i \in 1..Len(grp)}, cov)

\* C7: a combine call that finds a constituent missing from the metabolite
\* list fails without applying any part of the call, earlier groups of the
\* same list included.
C7_CombineFailsAtomically ==
    [][(call'.op = "combine" /\ call'.at = 128) =>
           /\ call'.err = "ValueError"
           /\ UNCHANGED <<columns, fitResults, metabs, numMetabs, crlb, perc_SD>>]_vars

(***************************************************************************)
(* Claims about calculateConcScaling, checked under Spec.                  *)
(***************************************************************************)

\* C8: the scaling set is the one the last successful calculateConcScaling
\* call computed, all four entries: internal (quantifyInternal of its
\* reference on the current table) and internalRef from its reference,
\* molarity and molality from its quantifyWater result when all water inputs
\* were given and None otherwise, whatever an earlier call had stored.
C8_ScalingSetReplaced ==
    phase = "loaded" =>
        IF ~scalingCall.made THEN concScalings = NoScalings
        ELSE LET ref == scalingCall.reference
             IN  /\ concScalings.internal =
                        QuantifyInternal(ref, RawMeans(fitResults, metabs), metabs)
                 /\ concScalings.internalRef = JoinPlus(ref)
                 /\ concScalings.molality =
                        (IF scalingCall.allWaterInputs THEN scalingCall.molality ELSE NoneF)
                 /\ concScalings.molarity =
                        (IF scalingCall.allWaterInputs THEN scalingCall.molarity ELSE NoneF)

\* A call without all water inputs has replaced a set that had a molarity.
C8_Witness ==
    /\ call.op = "calculateConcScaling"
    /\ call.err = "none"
    /\ scalingCall.afterWater
    /\ ~scalingCall.allWaterInputs
    /\ concScalings.molarity = NoneF
    /\ concScalings.internal # NoneF

\* C9: molarity and molality are set or unset together; they are set only if
\* the call that stored the scaling set was given waterRefFID, tissueFractions
\* and TE together; a call that missed one of them leaves both unset and
\* still stores internal and internalRef.
C9_WaterScalingsNeedAllInputs ==
    /\ (concScalings.molarity = NoneF) <=> (concScalings.molality = NoneF)
    /\ concScalings.molarity # NoneF => (scalingCall.made /\ scalingCall.allWaterInputs)
    /\ (scalingCall.made /\ ~scalingCall.allWaterInputs) =>
           /\ concScalings.molarity = NoneF
           /\ concScalings.molality = NoneF
           /\ concScalings.internal # NoneF
           /\ concScalings.internalRef # None

\* The current set was stored by a call given some but not all water inputs.
C9_Witness ==
    /\ scalingCall.made
    /\ scalingCall.anyWaterInput
    /\ ~scalingCall.allWaterInputs
    /\ concScalings.internal # NoneF
    /\ concScalings.molality = NoneF

(***************************************************************************)
(* Claims about getConc, checked under SpecConc.                           *)
(***************************************************************************)

\* C10: for a scaling key that is set, getConc(key) returns getConc('raw')
\* times concScalings[key], element by element: for the whole metabolite
\* list (combined entries included), for one named metabolite, and for every
\* function, None included.
C10_ScaledConcIsRawTimesFactor ==
    (/\ call.op = "getConc"
     /\ call.scaling \in {"internal", "molality", "molarity"}
     /\ concScalings[call.scaling] # NoneF
     /\ (call.metab = None \/ InSeq(call.metab, metabs))) =>
        LET raw == RawConc(call.metab, call.function, fitResults, metabs)
        IN  /\ call.err = "none"
            /\ Len(call.data) = (IF call.metab = None THEN Len(metabs) ELSE 1)
            /\ Len(call.data) = Len(raw)
            /\ \A i \in 1..Len(raw) :
                   /\ Len(call.data[i]) = Len(raw[i])
                   /\ \A j \in 1..Len(raw[i]) :
                          call.data[i][j] = FMul(raw[i][j], concScalings[call.scaling])

\* getConc('molality', function=None) has returned the per-sample values of
\* a two-sample table whose metabolite list holds a combined entry.
C10_Witness ==
    /\ call.op = "getConc"
    /\ call.err = "none"
    /\ call.scaling = "molality"
    /\ call.metab = None
    /\ call.function = None
    /\ Len(processed) > 0
    /\ Len(call.data) = Len(metabs)
    /\ Len(call.data[1]) = 2

C12_AutoScalingAtLoad ==
    call.op = "loadResults" =>
        IF InSeq("Cr", metabs) /\ InSeq("PCr", metabs)
        THEN /\ concScalings.internal # NoneF
             /\ concScalings.internalRef = "Cr+PCr"
             /\ concScalings.molarity = NoneF
             /\ concScalings.molality = NoneF
        ELSE /\ concScalings.internal = NoneF
             /\ concScalings.internalRef = None
             /\ concScalings.molarity = NoneF
             /\ concScalings.molality = NoneF

\* loadResults has just run on ['Cr','PCr','NAA'] with the one-sample table
\* 1, 2, 3, ..: the internal factor is 1/(1+2).
C12_Witness ==
    /\ call.op = "loadResults"
    /\ metabs = <<"Cr", "PCr", "NAA">>
    /\ NumRows(fitResults, columns) = 1
    /\ concScalings.internal = Fin(1, 1, 3)
    /\ concScalings.internalRef = "Cr+PCr"

\* C13: no combine call, returning or raising, changes an entry of the
\* scaling set: the internal factor is the one computed before the call.
C13_CombineKeepsScalings ==
    [][call'.op = "combine" =>
           /\ concScalings'.internal = concScalings.internal
           /\ concScalings'.internalRef = concScalings.internalRef
           /\ concScalings'.molarity = concScalings.molarity
           /\ concScalings'.molality = concScalings.molality]_vars

\* combine([['Cr','PCr']]) has returned on a result whose internal factor
\* was 1/(1+2) and whose molarity was set: both are as they were.
C13_Witness ==
    /\ call.op = "combine"
    /\ call.err = "none"
    /\ InSeq("Cr+PCr", metabs)
    /\ concScalings.internal = Fin(1, 1, 3)
    /\ concScalings.internalRef = "Cr+PCr"
    /\ concScalings.molarity # NoneF

(***************************************************************************)
(* Claims about the accessors and to_file, checked under SpecExport.       *)
(***************************************************************************)

\* The place a column label has in the claimed order of the 'concentrations'
\* view, for the reference label ref.
ColumnRank(label, ref) ==
    CASE label = "Metab" -> 1
      [] label = "Raw conc" -> 2
      [] label = ref -> 3
      [] label = "mMol/kg" -> 4
      [] label = "mM" -> 5
      [] label = "%CRLB" -> 6
      [] OTHER -> 0

\* C14: a 'concentrations' file written by to_file has the columns Metab,
\* Raw conc, '/<reference label>' exactly if internal is set, 'mMol/kg'
\* exactly if molality is set, 'mM' exactly if molarity is set, and %CRLB, in
\* that order and no other column; a 'qc' file has no columns.
C14_ConcentrationColumns ==
    (call.op = "to_file" /\ call.err = "none") =>
        /\ call.what = "qc" => (call.header = <<>> /\ call.data = <<>>)
        /\ call.what = "concentrations" =>
               LET h == call.header
                   ref == "/" \o concScalings.internalRef
               IN  /\ Len(call.data) = Len(h)
                   /\ \A i \in 1..Len(h) : ColumnRank(h[i], ref) # 0
                   /\ \A i, j \in 1..Len(h) :
                          i < j => ColumnRank(h[i], ref) < ColumnRank(h[j], ref)
                   /\ InSeq("Metab", h) /\ InSeq("Raw conc", h) /\ InSeq("%CRLB", h)
                   /\ InSeq(ref, h) <=> concScalings.internal # NoneF
                   /\ InSeq("mMol/kg", h) <=> concScalings.molality # NoneF
                   /\ InSeq("mM", h) <=> concScalings.molarity # NoneF

\* A 'concentrations' file has been written for a result scaled to NAA
\* without water inputs, after an earlier call had stored water scalings:
\* four columns.
C14_Witness ==
    /\ call.op = "to_file"
    /\ call.err = "none"
    /\ call.what = "concentrations"
    /\ scalingCall.afterWater
    /\ call.header = <<"Metab", "Raw conc", "/NAA", "%CRLB">>
    /\ Len(call.data) = 4
    /\ call.data[1] = metabs

\* C15: on a loaded result, after any number of combine calls (here: calls
\* that all returned, so that numMetabs counts the metabolite list), to_file
\* with the 'parameters' view writes the file, with one (Name, Value) row per
\* column of the table, combined entries included, each Value the mean of
\* the column that the Name of its row names.
C15_ParametersExport ==
    (/\ call.op = "to_file" /\ call.what = "parameters"
     /\ phase = "loaded" /\ numMetabs = Len(metabs)) =>
        /\ call.err = "none"
        /\ call.header = <<"Name", "Value">>
        /\ Len(call.data) = 2
        /\ call.data[1] = columns
        /\ Len(call.data[2]) = Len(call.data[1])
        /\ \A i \in 1..Len(call.data[1]) :
               call.data[2][i] = Mean(fitResults[call.data[1][i]])

\* C16: an accessor, an export, combine or calculateConcScaling called on a
\* result whose loadResults has not run fails at once, whatever the type of
\* the exception: it returns no value, writes no file and has changed
\* nothing when it raises.
C16_FailsFastBeforeLoad ==
    [][(/\ phase = "constructed"
        /\ call'.op \in {"getConc", "getLineShapeParams", "predictedFID", "to_file",
                         "combine", "calculateConcScaling"}) =>
           /\ call'.err # "none"
           /\ UNCHANGED <<phase, schemaVars, tableVars, scalingVars, processed>>]_vars

\* C17: getLineShapeParams returns (its linewidths) only for the
\* 'lorentzian' kind; for 'voigt' and every other kind it raises, whatever
\* the type of the exception, and never returns without a value.
C17_LineShapeOnlyLorentzian ==
    call.op = "getLineShapeParams" =>
        /\ model # "lorentzian" => call.err # "none"
        /\ call.err = "none" => call.shape \in {"groups", "samples x groups"}

\* C18 (as amended): predictedFID accepts 'full' and 'baseline' in any
\* letter case and the names in the metabolite list, and on a loaded result
\* calls the forward model for them with the matching selection; for every
\* other mode string it raises ValueError (line 160) without calling the
\* forward model and without changing the result.
C18_PredictedFIDModes ==
    [][call'.op = "predictedFID" =>
           LET mode == call'.mode
               whole == mode \in {"full", "Full", "FULL"}
               base == mode \in {"baseline", "Baseline", "BASELINE"}
               single == InSeq(mode, metabs)
           IN  /\ UNCHANGED <<phase, schemaVars, tableVars, scalingVars, processed>>
               /\ ~(whole \/ base \/ single) =>
                      /\ call'.err = "ValueError"
                      /\ call'.at = 160
                      /\ ~call'.fitted.called
               /\ ((whole \/ base \/ single) /\ phase = "loaded") =>
                      /\ call'.err # "ValueError"
                      /\ call'.fitted.called
                      /\ whole => (call'.fitted.basisSelect = None
                                   /\ ~call'.fitted.baselineOnly)
                      /\ base => call'.fitted.baselineOnly
                      /\ (single /\ ~whole /\ ~base) => call'.fitted.basisSelect = mode]_vars

\* predictedFID has rejected a mode that is no metabolite of a loaded result
\* whose list holds a combined entry.
C18_Witness ==
    /\ phase = "loaded"
    /\ call.op = "predictedFID"
    /\ call.mode = "Mac"
    /\ InSeq("Cr+PCr", metabs)
    /\ call.err = "ValueError"
    /\ call.at = 160
    /\ ~call.fitted.called

\* C18 (as stated): a mode that is none of the three kinds fails with
\* InvalidModeError, the forward model not called and nothing changed.
C18_Original ==
    [][call'.op = "predictedFID" =>
           LET mode == call'.mode
               accepted == \/ mode \in {"full", "Full", "FULL"}
                           \/ mode \in {"baseline", "Baseline", "BASELINE"}
                           \/ InSeq(mode, metabs)
           IN  ~accepted =>
                   /\ call'.err = "InvalidModeError"
                   /\ ~call'.fitted.called
                   /\ UNCHANGED <<phase, schemaVars, tableVars, scalingVars, processed>>]_vars

\* C19 (as amended): predictedFID with a metabolite name as mode asks the
\* forward model for that one metabolite (basisSelect the name, baselineOnly
\* False) and for the baseline to be left out exactly when it was itself
\* called with noBaseline=True; with the default noBaseline=False the
\* baseline is not excluded.
C19_SingleMetaboliteBaseline ==
    (/\ call.op = "predictedFID"
     /\ call.fitted.called
     /\ call.fitted.basisSelect # None) =>
        /\ call.fitted.basisSelect = call.mode
        /\ InSeq(call.mode, metabs)
        /\ ~call.fitted.baselineOnly
        /\ call.fitted.noBaseline <=> call.noBaseline

\* predictedFID(mrs, mode='Cr') with the default noBaseline has called the
\* forward model for 'Cr' with the baseline not excluded.
C19_Witness ==
    /\ call.op = "predictedFID"
    /\ call.err = "none"
    /\ call.mode = "Cr"
    /\ ~call.noBaseline
    /\ call.fitted.called
    /\ call.fitted.basisSelect = "Cr"
    /\ ~call.fitted.noBaseline

\* C19 (as stated): every single-metabolite reconstruction is made with the
\* baseline excluded, however predictedFID was called.
C19_Original ==
    (/\ call.op = "predictedFID"
     /\ call.fitted.called
     /\ call.fitted.basisSelect # None) =>
        call.fitted.noBaseline

(***************************************************************************)
(* Claims about the covariance matrix, checked under SpecTable.            *)
(***************************************************************************)

\* C20: on a loaded result the covariance matrix is square and symmetric and
\* has one row and column per CRLB entry, the entries appended by combine
\* included, with CRLB[i] = covariance[i,i] for every entry.
C20_CovarianceGrowsWithCombine ==
    phase = "loaded" =>
        /\ \A i \in 1..Len(cov) : Len(cov[i]) = Len(cov)
        /\ \A i, j \in 1..Len(cov) : cov[i][j] = cov[j][i]
        /\ Len(cov) = Len(crlb)
        /\ \A i \in 1..Len(crlb) : crlb[i] = cov[i][i]

(***************************************************************************)
(* Claims about what combine and the accessors leave alone.                *)
(***************************************************************************)

\* seq is the beginning of longer, entry by entry.
IsPrefix(seq, longer) ==
    /\ Len(seq) <= Len(longer)
    /\ \A i \in 1..Len(seq) : longer[i] = seq[i]

\* C21: combine only appends: the metabolite list, the schema and the table's
\* columns keep every entry at its position, a call that returns has
\* appended the '+'-joined name of each of its groups, in order, to the
\* metabolite list and to the schema, and original_metabs never changes
\* after construction.
C21_CombineAppendOnly ==
    [][/\ phase # "new" => original_metabs' = original_metabs
       /\ call'.op = "combine" =>
              /\ IsPrefix(metabs, metabs')
              /\ IsPrefix(params_names, params_names')
              /\ IsPrefix(columns, columns')
              /\ (call'.err = "none") =>
                     LET k == Len(processed') - Len(processed)
                         added == [i \in 1..k |-> processed'[Len(processed) + i].name]
                     IN  /\ k > 0
                         /\ \A i \in 1..k :
                                added[i] = JoinPlus(processed'[Len(processed) + i].group)
                         /\ metabs' = metabs \o added
                         /\ params_names' = params_names \o added]_vars


\* The calls that only read.
ReadOnlyCalls ==
    {"getConc", "getPhaseParams", "getShiftParams", "getLineShapeParams",
     "getBaselineParams", "getQCParams", "to_file"}

\* The request of a call: its method and arguments.
RequestOf(c) ==
    <<c.op, c.scaling, c.metab, c.function, c.what, c.units, c.phi1, c.complex, c.normalise>>

\* What a call gave its caller.
ResultOf(c) == <<c.err, c.shape, c.data, c.header, c.divisorSquared>>

\* C22: an accessor or export call, function=None included, changes nothing
\* of the object (table, point estimate, covariance, CRLB, percent SD,
\* schema, scaling set), and a call that repeats the call before it, both
\* returning, returns an equal result.
C22_AccessorsReadOnly ==
    [][call'.op \in ReadOnlyCalls =>
           /\ UNCHANGED <<phase, schemaVars, tableVars, scalingVars, processed>>
           /\ (/\ RequestOf(call') = RequestOf(call)
               /\ call.err = "none"
               /\ call'.err = "none") => ResultOf(call') = ResultOf(call)]_vars


\* What object o of the pair holds, by value, and the label its next
\* calculateConcScaling(mrs) without a referenceMetab argument would store.
ViewOf(o) ==
    [made |-> objects[o].made,
     intrefstr |-> objects[o].intrefstr,
     referenceMetab |-> IF objects[o].referenceMetab = Unset THEN <<>>
                        ELSE lists[objects[o].referenceMetab],
     metab_groups |-> IF objects[o].metab_groups = None THEN <<>>
                      ELSE lists[objects[o].metab_groups],
     nextLabel |-> IF objects[o].made THEN JoinPlus(lists["default"]) ELSE ""]

\* C23: result objects share no mutable state: a step made on one object of
\* the pair (a call on it, or a change to a list it stores) leaves what the
\* other object holds, and what a later call on the other returns, as it was.
C23_NoSharedMutableState ==
    [][\A o \in ObjectIds : actor' # o => ViewOf(o)' = ViewOf(o)]_vars


(***************************************************************************)
(* Claims about the units of the accessors, checked under SpecAccess.      *)
(***************************************************************************)

\* radians to degrees: value * 180 / pi.
InDegrees(values) == TimesFactor(values, FDiv(FromInt(180), Pi))

\* C24: a getPhaseParams call that returns gives the stored zero-order phase
\* unchanged for 'radians' and times 180/pi for 'degrees', and the stored
\* first-order phase in the requested unit; a call with any other unit
\* string raises and returns nothing.
C24_PhaseUnits ==
    [][(call'.op = "getPhaseParams" /\ phase = "loaded") =>
           LET u0 == LowerPhaseUnits(call'.units)
               u1 == LowerPhaseUnits(call'.phi1)
               stored0 == DfFunc(call'.function, fitResults["Phi0"])
               stored1 == DfFunc(call'.function, fitResults["Phi1"])
           IN  /\ (u0 \notin {"degrees", "radians"}
                   \/ u1 \notin {"seconds", "deg_per_ppm", "deg_per_hz"}) =>
                      (call'.err # "none" /\ call'.data = <<>>)
               /\ call'.err = "none" =>
                      /\ call'.data[1] = IF u0 = "radians" THEN stored0 ELSE InDegrees(stored0)
                      /\ call'.data[2] = ScalePhi1(stored1, u1)]_vars


\* C25: getBaselineParams returns the baseline coefficients (complex numbers,
\* or real and imaginary parts in turn); with normalise=True each is divided
\* by the magnitude of the 0th-order coefficient, sqrt(B_real_0^2 +
\* B_imag_0^2), for complex=True and complex=False alike; with
\* normalise=False nothing is divided.
C25_BaselineNormalisation ==
    (call.op = "getBaselineParams" /\ call.err = "none") =>
        LET means == BaselineMeans(fitResults, baseline_order)
        IN  /\ call.data = BaselineArray(means, call.complex)
            /\ call.divisorSquared =
                   IF call.normalise
                   THEN FAdd(FMul(means[1][1], means[1][1]), FMul(means[1][2], means[1][2]))
                   ELSE NoneF


(***************************************************************************)
(* Claims about the sample statistics, checked under SpecSample.           *)
(***************************************************************************)

\* C26: with method 'MH', after loadResults and after every combine that
\* returns, the sample covariance, correlation and variance are over all
\* columns of the table as it then is, combined columns included; combine
\* leaves the Laplace covariance alone, and another method stores none.
C26_SampleStatisticsFollowTable ==
    [][/\ (/\ phase' = "loaded"
           /\ method' = "MH"
           /\ call'.op = "loadResults" \/ (call'.op = "combine" /\ call'.err = "none")) =>
              LET n == Len(columns')
                  col(i) == fitResults'[columns'[i]]
              IN  /\ Len(mcmc_cov') = n /\ Len(mcmc_cor') = n /\ Len(mcmc_var') = n
                  /\ \A i \in 1..n :
                        /\ Len(mcmc_cov'[i]) = n /\ Len(mcmc_cor'[i]) = n
                        /\ mcmc_var'[i] = Covariance(col(i), col(i))
                        /\ \A j \in 1..n :
                              /\ mcmc_cov'[i][j] = Covariance(col(i), col(j))
                              /\ mcmc_cor'[i][j] = Correlation(col(i), col(j))
       /\ call'.op = "combine" => cov' = cov
       /\ method' # "MH" => (mcmc_cov' = <<>> /\ mcmc_cor' = <<>> /\ mcmc_var' = <<>>)]_vars

C26_Witness ==
    /\ method = "MH"
    /\ call.op = "combine"
    /\ call.err = "none"
    /\ columns[Len(columns)] = "Cr+PCr"
    /\ Len(mcmc_cov) = Len(params_names) + 1
    /\ mcmc_var[Len(columns)] = FromInt(2)
    /\ mcmc_cor[2][Len(columns)] = Root(1, 1, 1)
    /\ mcmc_cor[1][Len(columns)] = NaN
    /\ Len(cov) = Len(params_names)


(***************************************************************************)
(* Claims about the export after combine, checked under SpecExport.        *)
(***************************************************************************)

\* C27: in the 'concentrations' file the %CRLB of row i is the percent SD of
\* the metabolite of row i, metabs[i], that is the entry of perc_SD at that
\* metabolite's column, for original and combined metabolites alike.
C27_PercentCRLBAligned ==
    (/\ call.op = "to_file"
     /\ call.what = "concentrations"
     /\ call.err = "none"
     /\ Len(perc_SD) = Len(columns)) =>
        LET percentCRLB == call.data[Len(call.data)]
        IN  /\ Len(percentCRLB) = Len(metabs)
            /\ \A i \in 1..Len(metabs) :
                   percentCRLB[i] = perc_SD[IndexOf(metabs[i], columns)]


(***************************************************************************)
(* Claims about repeated combine calls, checked under SpecTable.           *)
(***************************************************************************)

NoDuplicates(seq) == \A i, j \in 1..Len(seq) : i # j => seq[i] # seq[j]

\* C28: a combine call whose constituents are all in the metabolite list,
\* a group combined before or a repeated constituent included, returns with
\* numMetabs = len(metabs), no name twice in metabs, and crlb, perc_SD and
\* the column means of equal length with entry i of each belonging to
\* column i; if it raises instead, it has changed nothing.
C28_RepeatedCombineConsistent ==
    [][(call'.op = "combine" /\ phase = "loaded" /\ call'.at \notin {128, 131}) =>
           IF call'.err = "none"
           THEN /\ numMetabs' = Len(metabs')
                /\ NoDuplicates(metabs')
                /\ Len(crlb') = Len(columns')
                /\ Len(perc_SD') = Len(columns')
                /\ perc_SD' = PercSD(crlb', ColumnMeans(fitResults', columns'))
                /\ \A i \in 1..Len(processed') :
                       /\ InSeq(processed'[i].name, columns')
                       /\ crlb'[IndexOf(processed'[i].name, columns')] = processed'[i].crlb
           ELSE UNCHANGED <<metabs, numMetabs, columns, fitResults, crlb, perc_SD>>]_vars


(***************************************************************************)
(* Claims about calculateConcScaling, checked under Spec.                  *)
(***************************************************************************)

\* C29: a calculateConcScaling call that raises leaves the scaling set, the
\* reference label, the reference list and the water reference metabolite
\* as they were, so that whenever the scaling set is set its 'internalRef'
\* entry is the reference label of the object.
C29_FailedScalingChangesNothing ==
    [][/\ (call'.op = "calculateConcScaling" /\ call'.err # "none") =>
              UNCHANGED <<concScalings, intrefstr, referenceMetab, waterReferenceMetab>>
       /\ concScalings'.internalRef # None => intrefstr' = concScalings'.internalRef]_vars


\* C30: the internal factor is the same whether combine runs before or
\* after calculateConcScaling: for every reference whose metabolites are in
\* the list, a combine step leaves what calculateConcScaling computes from
\* the table (1 / the sum of the reference metabolites' raw means) as it
\* was, and leaves the factor already stored as it was.
C30_ScalingCommutesWithCombine ==
    [][(call'.op = "combine" /\ phase = "loaded") =>
           /\ concScalings'.internal = concScalings.internal
           /\ \A ref \in ReferenceInputs :
                  (\A i \in 1..Len(ref) : InSeq(ref[i], metabs)) =>
                      /\ \A i \in 1..Len(ref) : InSeq(ref[i], metabs')
                      /\ QuantifyInternal(ref, RawMeans(fitResults', metabs'), metabs')
                             = QuantifyInternal(ref, RawMeans(fitResults, metabs), metabs)]_vars

\* The default scaling of loadResults, combine, then the same scaling again:
\* the factor is 1/3 both times.
C30_Witness ==
    /\ call.op = "calculateConcScaling"
    /\ call.err = "none"
    /\ Len(processed) = 1
    /\ processed[1].name = "Cr+PCr"
    /\ referenceMetab = <<"Cr", "PCr">>
    /\ NumRows(fitResults, columns) = 1
    /\ concScalings.internal = Fin(1, 1, 3)
    /\ concScalings.internal =
           QuantifyInternal(<<"Cr", "PCr">>, RawMeans(fitResults, original_metabs),
                            original_metabs)

====
